---- MODULE Spec2Model ----
(***************************************************************************)
(* State-machine model of exeGraph_mpl.py (binGraph): whole-file entropy   *)
(* sampling (bin_ent), whole-file and per-section byte histograms          *)
(* (bin_hist, section_byte_occurance_histogram) and per-section block      *)
(* entropy (section_ent_line).                                             *)
(*                                                                         *)
(* Floats are modelled in binary fixed point with FracBits fractional bits *)
(* (entropy values) or as exact fractions [num, den] (percentages, marker  *)
(* positions).  Calls into matplotlib and lief are the environment: they   *)
(* either succeed or raise.                                                *)
(***************************************************************************)
EXTENDS Integers, Sequences, FiniteSets, TLC

VARIABLES
    op,               \* which entry point is running
    pc,               \* position inside it
    err,              \* what raised, "" while nothing has
    data,             \* the content of the file binname
    chunks,           \* bin_ent(chunks=)
    ibytes,           \* bin_ent(ibytes=): sequence of [label, b_range] (dict order)
    ignore_0,         \* bin_hist / section_byte_occurance_histogram (ignore_0=)
    block_size,       \* section_ent_line(block_size=)
    fhOpen,           \* the handle on binname is open
    pos,              \* read position of fh
    fs,               \* os.fstat(fh.fileno()).st_size
    chunksize,        \* -(-fs // chunks)
    prev_ent,         \* previous raw entropy (bin_ent and section_ent_line)
    shannon_samples,  \* the entropy series
    byte_ranges,      \* per ibytes entry, its percentage series
    raw,              \* history: real_ent of every chunk, in order
    chunkLog,         \* history: every chunk get_chunk yielded, in order
    exebin,           \* result of lief.parse: "unparsed", "None", "PE", "Other"
    sidx,             \* index of the section loop (enumerate)
    marker,           \* the last axvline x position drawn, <<>> if none
    file_array,       \* bin_hist: the bytes read
    ordered_row,      \* histogram by byte value over range(ignore_0, 256)
    content,          \* section.content of the current section
    block_len,        \* section_ent_line
    i,                \* section_ent_line: block index
    prev_end,         \* section_ent_line
    blocks            \* history: <<block_start, block_end>> of every slice taken

vars == <<op, pc, err, data, chunks, ibytes, ignore_0, block_size, fhOpen, pos,
          fs, chunksize, prev_ent, shannon_samples, byte_ranges, raw, chunkLog,
          exebin, sidx, marker, file_array, ordered_row, content, block_len, i,
          prev_end, blocks>>

----------------------------------------------------------------------------
(* Bounds of the model *)

MaxLen == 5          \* longest file / section content
MaxChunks == 3       \* largest chunks= argument
MaxSections == 2     \* most sections a parsed binary has
MaxBlocks == 3       \* largest block_size= argument
FracBits == 8        \* fractional bits of the fixed-point entropy values

(* Byte values the inputs are drawn from (a sample of 0..255) *)
Bytes == {0, 255}

RECURSIVE SeqsUpTo(_)
SeqsUpTo(n) ==
    IF n = 0 THEN {<<>>}
    ELSE LET shorter == SeqsUpTo(n - 1)
         IN  shorter \cup {Append(s, b) : s \in {t \in shorter : Len(t) = n - 1}, b \in Bytes}

ByteSeqs == SeqsUpTo(MaxLen)

(* Tracked byte groups offered to bin_ent *)
IbytesChoices ==
    { <<>>,
      << [label |-> "0's", b_range |-> <<0>>],
         [label |-> "Exploit", b_range |-> <<44, 144>>] >>,
      << [label |-> "Twice", b_range |-> <<255, 255>>] >> }

----------------------------------------------------------------------------
(* Arithmetic helpers *)

Min(a, b) == IF a <= b THEN a ELSE b

(* -(-a // b) for a >= 0, b >= 1 *)
CeilDiv(a, b) == (a + b - 1) \div b

(* s[a:b] of Python for 0 <= a, 0 <= b: clamped to the sequence *)
Slice(s, a, b) ==
    LET hi == Min(b, Len(s))
    IN  IF a >= hi THEN <<>> ELSE SubSeq(s, a + 1, hi)

RECURSIVE Pow2(_)
Pow2(n) == IF n = 0 THEN 1 ELSE 2 * Pow2(n - 1)

FixOne == Pow2(FracBits)

(* floor(log2(x)), x >= 1 *)
ILog2[x \in Nat] == IF x < 2 THEN 0 ELSE 1 + ILog2[x \div 2]

(* the fractional bits of log2(y / FixOne), FixOne <= y < 2 * FixOne, by
   repeated squaring *)
FracLoop[y \in Nat, k \in Nat, acc \in Nat] ==
    IF k = 0 THEN acc
    ELSE LET sq == (y * y) \div FixOne
         IN  IF sq >= 2 * FixOne THEN FracLoop[sq \div 2, k - 1, 2 * acc + 1]
             ELSE FracLoop[sq, k - 1, 2 * acc]

(* log2(x) in fixed point, x >= 1 *)
Log2Fix(x) == ILog2[x] * FixOne + FracLoop[(x * FixOne) \div Pow2(ILog2[x]), FracBits, 0]

(* collections.Counter(seq)[x] *)
Count(seq, x) == Cardinality({j \in 1..Len(seq) : seq[j] = x})

Values(seq) == {seq[j] : j \in 1..Len(seq)}

RECURSIVE SumOver(_, _)
SumOver(S, f) ==
    IF S = {} THEN 0
    ELSE LET x == CHOOSE y \in S : TRUE IN f[x] + SumOver(S \ {x}, f)

Base == 256

(* shannon_ent(labels, base=256): -sum(p * log(p) / log(base)), p = count/total,
   in fixed point; the empty input sums over nothing and yields 0 *)
shannon_ent(labels) ==
    LET n == Len(labels)
        term == [v \in Values(labels) |->
                   Count(labels, v) * (Log2Fix(n) - Log2Fix(Count(labels, v)))]
    IN  IF n = 0 THEN 0
        ELSE (SumOver(Values(labels), term) * FixOne) \div (n * Log2Fix(Base))

(* statistics.median of two values: the mean of the two *)
Median2(a, b) == (a + b) \div 2

----------------------------------------------------------------------------
(* bin_ent: entropy and byte occurrence over the whole file *)

(* the chunk size had it been rounded down instead of up *)
ChunkSizeFloor(size, n) == size \div n

(* chunksize = -(-fs // chunks) *)
ChunkSize(size, n) == CeilDiv(size, n)

(* fh.read(chunksize) at read position p *)
ReadChunk(p) == Slice(data, p, p + chunksize)

(* the sample appended for a chunk: the median is computed, then ent is
   reassigned to real_ent before the append *)
EntSample(real_ent, prev) ==
    LET ent == Median2(real_ent, prev)
    IN  real_ent

(* occurance += cbytes[b] for b in b_range *)
Occurance(chunk, b_range) ==
    SumOver(1..Len(b_range), [j \in 1..Len(b_range) |-> Count(chunk, b_range[j])])

(* (float(occurance) / float(len(chunk))) * 100, as a fraction *)
Percentage(chunk, b_range) ==
    [num |-> Occurance(chunk, b_range) * 100, den |-> Len(chunk)]

(* the append had it been skipped for a chunk without a tracked byte *)
AppendPercentagesSeen(ranges, chunk) ==
    [k \in 1..Len(ibytes) |->
        IF Occurance(chunk, ibytes[k].b_range) > 0
        THEN Append(ranges[k], Percentage(chunk, ibytes[k].b_range))
        ELSE ranges[k]]

(* byte_ranges[label].append(...) for every label, b_range of ibytes *)
AppendPercentages(ranges, chunk) ==
    [k \in 1..Len(ibytes) |-> Append(ranges[k], Percentage(chunk, ibytes[k].b_range))]

(* offset / nr_chunksize with nr_chunksize = fs / chunks, as a fraction *)
MarkerX(kind, offset) ==
    [kind |-> kind, offset |-> offset, num |-> offset * chunks, den |-> fs]

Raise(what) ==
    /\ pc' = "raised"
    /\ err' = what

BinEntOpen ==
    /\ op = "bin_ent" /\ pc = "call"
    /\ fhOpen' = TRUE
    /\ pos' = 0
    /\ fs' = Len(data)
    /\ chunksize' = ChunkSize(Len(data), chunks)
    /\ shannon_samples' = <<>>
    /\ byte_ranges' = [k \in 1..Len(ibytes) |-> <<>>]
    /\ prev_ent' = 0
    /\ pc' = "chunks"
    /\ UNCHANGED <<op, err, data, chunks, ibytes, ignore_0, block_size, raw, chunkLog,
                   exebin, sidx, marker, file_array, ordered_row, content, block_len,
                   i, prev_end, blocks>>

(* open(binname, 'rb') raises: no handle exists *)
BinEntOpenFail ==
    /\ op = "bin_ent" /\ pc = "call"
    /\ Raise("open")
    /\ UNCHANGED <<op, data, chunks, ibytes, ignore_0, block_size, fhOpen, pos, fs,
                   chunksize, prev_ent, shannon_samples, byte_ranges, raw, chunkLog,
                   exebin, sidx, marker, file_array, ordered_row, content, block_len,
                   i, prev_end, blocks>>

(* one iteration of: for chunk in get_chunk(fh, chunksize) *)
BinEntChunk ==
    /\ op = "bin_ent" /\ pc = "chunks"
    /\ LET chunk == ReadChunk(pos)
           real_ent == shannon_ent(chunk)
       IN  /\ chunk # <<>>
           /\ pos' = pos + Len(chunk)
           /\ shannon_samples' = Append(shannon_samples, EntSample(real_ent, prev_ent))
           /\ prev_ent' = real_ent
           /\ byte_ranges' = IF Len(ibytes) > 0 THEN AppendPercentages(byte_ranges, chunk)
                             ELSE byte_ranges
           /\ raw' = Append(raw, real_ent)
           /\ chunkLog' = Append(chunkLog, chunk)
    /\ UNCHANGED <<op, pc, err, data, chunks, ibytes, ignore_0, block_size, fhOpen, fs,
                   chunksize, exebin, sidx, marker, file_array, ordered_row, content,
                   block_len, i, prev_end, blocks>>

(* fh.read returns nothing: get_chunk ends the loop *)
BinEntEOF ==
    /\ op = "bin_ent" /\ pc = "chunks"
    /\ ReadChunk(pos) = <<>>
    /\ pc' = "plot"
    /\ UNCHANGED <<op, err, data, chunks, ibytes, ignore_0, block_size, fhOpen, pos, fs,
                   chunksize, prev_ent, shannon_samples, byte_ranges, raw, chunkLog,
                   exebin, sidx, marker, file_array, ordered_row, content, block_len,
                   i, prev_end, blocks>>

(* plotting of the series *)
BinEntPlot ==
    /\ op = "bin_ent" /\ pc = "plot"
    /\ pc' = "lief"
    /\ UNCHANGED <<op, err, data, chunks, ibytes, ignore_0, block_size, fhOpen, pos, fs,
                   chunksize, prev_ent, shannon_samples, byte_ranges, raw, chunkLog,
                   exebin, sidx, marker, file_array, ordered_row, content, block_len,
                   i, prev_end, blocks>>

BinEntPlotFail ==
    /\ op = "bin_ent" /\ pc = "plot"
    /\ Raise("render")
    /\ UNCHANGED <<op, data, chunks, ibytes, ignore_0, block_size, fhOpen, pos, fs,
                   chunksize, prev_ent, shannon_samples, byte_ranges, raw, chunkLog,
                   exebin, sidx, marker, file_array, ordered_row, content, block_len,
                   i, prev_end, blocks>>

(* try: exebin = lief.parse(...); log.debug(exebin.format)
   except Exception: exebin = None.  A parse that raises, and one that returns
   None (exebin.format then raises inside the try), both leave exebin = None *)
BinEntLiefParse ==
    /\ op = "bin_ent" /\ pc = "lief"
    /\ \E r \in {"raises", "None", "PE", "Other"} :
          /\ r = "PE" => fs >= 1
          /\ exebin' = IF r = "raises" THEN "None" ELSE r
          /\ pc' = IF r = "PE" THEN "ep" ELSE "legend"
    /\ UNCHANGED <<op, err, data, chunks, ibytes, ignore_0, block_size, fhOpen, pos, fs,
                   chunksize, prev_ent, shannon_samples, byte_ranges, raw, chunkLog,
                   sidx, marker, file_array, ordered_row, content, block_len,
                   i, prev_end, blocks>>

(* v_ep = exebin.va_to_offset(exebin.entrypoint) / nr_chunksize *)
BinEntEntryPoint ==
    /\ op = "bin_ent" /\ pc = "ep"
    /\ \E o \in 0..(fs - 1) : marker' = <<MarkerX("EP", o)>>
    /\ sidx' = 0
    /\ pc' = "sections"
    /\ UNCHANGED <<op, err, data, chunks, ibytes, ignore_0, block_size, fhOpen, pos, fs,
                   chunksize, prev_ent, shannon_samples, byte_ranges, raw, chunkLog,
                   exebin, file_array, ordered_row, content, block_len,
                   i, prev_end, blocks>>

(* va_to_offset raises: outside the try *)
BinEntEntryPointFail ==
    /\ op = "bin_ent" /\ pc = "ep"
    /\ Raise("lief_entrypoint")
    /\ UNCHANGED <<op, data, chunks, ibytes, ignore_0, block_size, fhOpen, pos, fs,
                   chunksize, prev_ent, shannon_samples, byte_ranges, raw, chunkLog,
                   exebin, sidx, marker, file_array, ordered_row, content, block_len,
                   i, prev_end, blocks>>

(* one iteration of: for index, section in enumerate(exebin.sections) *)
BinEntSection ==
    /\ op = "bin_ent" /\ pc = "sections"
    /\ sidx < MaxSections
    /\ \E o \in 0..(fs - 1) : marker' = <<MarkerX("section", o)>>
    /\ sidx' = sidx + 1
    /\ UNCHANGED <<op, pc, err, data, chunks, ibytes, ignore_0, block_size, fhOpen, pos,
                   fs, chunksize, prev_ent, shannon_samples, byte_ranges, raw, chunkLog,
                   exebin, file_array, ordered_row, content, block_len,
                   i, prev_end, blocks>>

(* section.name or section.offset raises *)
BinEntSectionFail ==
    /\ op = "bin_ent" /\ pc = "sections"
    /\ sidx < MaxSections
    /\ Raise("lief_section")
    /\ UNCHANGED <<op, data, chunks, ibytes, ignore_0, block_size, fhOpen, pos, fs,
                   chunksize, prev_ent, shannon_samples, byte_ranges, raw, chunkLog,
                   exebin, sidx, marker, file_array, ordered_row, content, block_len,
                   i, prev_end, blocks>>

BinEntSectionsDone ==
    /\ op = "bin_ent" /\ pc = "sections"
    /\ pc' = "legend"
    /\ UNCHANGED <<op, err, data, chunks, ibytes, ignore_0, block_size, fhOpen, pos, fs,
                   chunksize, prev_ent, shannon_samples, byte_ranges, raw, chunkLog,
                   exebin, sidx, marker, file_array, ordered_row, content, block_len,
                   i, prev_end, blocks>>

(* legends, logo, savefig; the function returns and fh was never closed *)
BinEntSave ==
    /\ op = "bin_ent" /\ pc = "legend"
    /\ pc' = "returned"
    /\ UNCHANGED <<op, err, data, chunks, ibytes, ignore_0, block_size, fhOpen, pos, fs,
                   chunksize, prev_ent, shannon_samples, byte_ranges, raw, chunkLog,
                   exebin, sidx, marker, file_array, ordered_row, content, block_len,
                   i, prev_end, blocks>>

BinEntSaveFail ==
    /\ op = "bin_ent" /\ pc = "legend"
    /\ Raise("render")
    /\ UNCHANGED <<op, data, chunks, ibytes, ignore_0, block_size, fhOpen, pos, fs,
                   chunksize, prev_ent, shannon_samples, byte_ranges, raw, chunkLog,
                   exebin, sidx, marker, file_array, ordered_row, content, block_len,
                   i, prev_end, blocks>>

(* no close() is called on fh: only the interpreter's finalizer, whenever it
   collects the file object after the call has exited, closes the handle *)
Finalize ==
    /\ op = "bin_ent" /\ pc \in {"returned", "raised"}
    /\ fhOpen
    /\ fhOpen' = FALSE
    /\ UNCHANGED <<op, pc, err, data, chunks, ibytes, ignore_0, block_size, pos, fs,
                   chunksize, prev_ent, shannon_samples, byte_ranges, raw, chunkLog,
                   exebin, sidx, marker, file_array, ordered_row, content, block_len,
                   i, prev_end, blocks>>

----------------------------------------------------------------------------
(* bin_hist: byte histogram over the whole file *)

(* int(ignore_0) *)
IntOfBool(b) == IF b THEN 1 ELSE 0

RangeStop == 256

(* the range had it stopped one value early *)
ByteRangeShort(lo) == lo..(RangeStop - 2)

(* range(lo, 256) *)
ByteRange(lo) == lo..(RangeStop - 1)

(* ordered_row: c = Counter(seq); for x in range(lo, 256): append(c[x]) *)
OrderedRow(seq, lo) ==
    LET xs == ByteRange(lo)
    IN  [k \in 1..Cardinality(xs) |-> Count(seq, lo + k - 1)]

BinHistOpen ==
    /\ op = "bin_hist" /\ pc = "call"
    /\ fhOpen' = TRUE
    /\ pc' = "read"
    /\ UNCHANGED <<op, err, data, chunks, ibytes, ignore_0, block_size, pos, fs,
                   chunksize, prev_ent, shannon_samples, byte_ranges, raw, chunkLog,
                   exebin, sidx, marker, file_array, ordered_row, content, block_len,
                   i, prev_end, blocks>>

BinHistOpenFail ==
    /\ op = "bin_hist" /\ pc = "call"
    /\ Raise("open")
    /\ UNCHANGED <<op, data, chunks, ibytes, ignore_0, block_size, fhOpen, pos, fs,
                   chunksize, prev_ent, shannon_samples, byte_ranges, raw, chunkLog,
                   exebin, sidx, marker, file_array, ordered_row, content, block_len,
                   i, prev_end, blocks>>

(* with open(...) as fh: for x in fh.read(): file_array.append(x)
   leaving the with block closes fh *)
BinHistRead ==
    /\ op = "bin_hist" /\ pc = "read"
    /\ file_array' = data
    /\ fhOpen' = FALSE
    /\ pc' = "hist"
    /\ UNCHANGED <<op, err, data, chunks, ibytes, ignore_0, block_size, pos, fs,
                   chunksize, prev_ent, shannon_samples, byte_ranges, raw, chunkLog,
                   exebin, sidx, marker, ordered_row, content, block_len,
                   i, prev_end, blocks>>

(* fh.read() raises: the with block still closes fh *)
BinHistReadFail ==
    /\ op = "bin_hist" /\ pc = "read"
    /\ fhOpen' = FALSE
    /\ Raise("read")
    /\ UNCHANGED <<op, data, chunks, ibytes, ignore_0, block_size, pos, fs,
                   chunksize, prev_ent, shannon_samples, byte_ranges, raw, chunkLog,
                   exebin, sidx, marker, file_array, ordered_row, content, block_len,
                   i, prev_end, blocks>>

BinHistRows ==
    /\ op = "bin_hist" /\ pc = "hist"
    /\ ordered_row' = OrderedRow(file_array, IntOfBool(ignore_0))
    /\ pc' = "save"
    /\ UNCHANGED <<op, err, data, chunks, ibytes, ignore_0, block_size, fhOpen, pos, fs,
                   chunksize, prev_ent, shannon_samples, byte_ranges, raw, chunkLog,
                   exebin, sidx, marker, file_array, content, block_len,
                   i, prev_end, blocks>>

BinHistSave ==
    /\ op = "bin_hist" /\ pc = "save"
    /\ pc' = "returned"
    /\ UNCHANGED <<op, err, data, chunks, ibytes, ignore_0, block_size, fhOpen, pos, fs,
                   chunksize, prev_ent, shannon_samples, byte_ranges, raw, chunkLog,
                   exebin, sidx, marker, file_array, ordered_row, content, block_len,
                   i, prev_end, blocks>>

BinHistSaveFail ==
    /\ op = "bin_hist" /\ pc = "save"
    /\ Raise("render")
    /\ UNCHANGED <<op, data, chunks, ibytes, ignore_0, block_size, fhOpen, pos, fs,
                   chunksize, prev_ent, shannon_samples, byte_ranges, raw, chunkLog,
                   exebin, sidx, marker, file_array, ordered_row, content, block_len,
                   i, prev_end, blocks>>

----------------------------------------------------------------------------
(* section_byte_occurance_histogram: byte histogram per section *)

SectHistEnter ==
    /\ op = "section_hist" /\ pc = "call"
    /\ sidx' = 0
    /\ pc' = "sections"
    /\ UNCHANGED <<op, err, data, chunks, ibytes, ignore_0, block_size, fhOpen, pos, fs,
                   chunksize, prev_ent, shannon_samples, byte_ranges, raw, chunkLog,
                   exebin, marker, file_array, ordered_row, content, block_len,
                   i, prev_end, blocks>>

(* one iteration of: for i, section in enumerate(pebin.sections) *)
SectHistSection ==
    /\ op = "section_hist" /\ pc = "sections"
    /\ sidx < MaxSections
    /\ \E c \in ByteSeqs :
          /\ content' = c
          /\ ordered_row' = OrderedRow(c, IntOfBool(ignore_0))
    /\ sidx' = sidx + 1
    /\ UNCHANGED <<op, pc, err, data, chunks, ibytes, ignore_0, block_size, fhOpen, pos,
                   fs, chunksize, prev_ent, shannon_samples, byte_ranges, raw, chunkLog,
                   exebin, marker, file_array, block_len, i, prev_end, blocks>>

SectHistDone ==
    /\ op = "section_hist" /\ pc = "sections"
    /\ pc' = "returned"
    /\ UNCHANGED <<op, err, data, chunks, ibytes, ignore_0, block_size, fhOpen, pos, fs,
                   chunksize, prev_ent, shannon_samples, byte_ranges, raw, chunkLog,
                   exebin, sidx, marker, file_array, ordered_row, content, block_len,
                   i, prev_end, blocks>>

----------------------------------------------------------------------------
(* section_ent_line: block entropy per section *)

(* the block length had it been rounded down instead of up *)
BlockLenFloor(n, size) == n \div size

(* block_len = -(-len(section.content) // block_size) *)
BlockLen(n, size) == CeilDiv(n, size)

(* block_end = i * block_len *)
BlockEnd(idx, len) == idx * len

(* the next block's start had it been this block's end *)
NextPrevEndNoGap(block_end) == block_end

(* prev_end = block_end + 1 *)
NextPrevEnd(block_end) == block_end + 1

SectEntEnter ==
    /\ op = "section_ent_line" /\ pc = "call"
    /\ sidx' = 0
    /\ pc' = "sections"
    /\ UNCHANGED <<op, err, data, chunks, ibytes, ignore_0, block_size, fhOpen, pos, fs,
                   chunksize, prev_ent, shannon_samples, byte_ranges, raw, chunkLog,
                   exebin, marker, file_array, ordered_row, content, block_len,
                   i, prev_end, blocks>>

(* head of one iteration of: for i, section in enumerate(pebin.sections) *)
SectEntSection ==
    /\ op = "section_ent_line" /\ pc = "sections"
    /\ sidx < MaxSections
    /\ \E c \in ByteSeqs :
          /\ content' = c
          /\ block_len' = BlockLen(Len(c), block_size)
    /\ shannon_samples' = <<>>
    /\ i' = 1
    /\ prev_end' = 0
    /\ prev_ent' = 0
    /\ raw' = <<>>
    /\ blocks' = <<>>
    /\ pc' = "blocks"
    /\ UNCHANGED <<op, err, data, chunks, ibytes, ignore_0, block_size, fhOpen, pos, fs,
                   chunksize, byte_ranges, chunkLog, exebin, sidx, marker, file_array,
                   ordered_row>>

(* one iteration of: while prev_end <= len(section.content) *)
SectEntBlock ==
    /\ op = "section_ent_line" /\ pc = "blocks"
    /\ prev_end <= Len(content)
    /\ LET block_start == prev_end
           block_end == BlockEnd(i, block_len)
           real_ent == shannon_ent(Slice(content, block_start, block_end))
       IN  /\ shannon_samples' = Append(shannon_samples, Median2(real_ent, prev_ent))
           /\ prev_ent' = real_ent
           /\ prev_end' = NextPrevEnd(block_end)
           /\ raw' = Append(raw, real_ent)
           /\ blocks' = Append(blocks, <<block_start, block_end>>)
    /\ i' = i + 1
    /\ UNCHANGED <<op, pc, err, data, chunks, ibytes, ignore_0, block_size, fhOpen, pos,
                   fs, chunksize, byte_ranges, chunkLog, exebin, sidx, marker,
                   file_array, ordered_row, content, block_len>>

(* the while condition is false *)
SectEntLoopExit ==
    /\ op = "section_ent_line" /\ pc = "blocks"
    /\ ~(prev_end <= Len(content))
    /\ pc' = "trend"
    /\ UNCHANGED <<op, err, data, chunks, ibytes, ignore_0, block_size, fhOpen, pos, fs,
                   chunksize, prev_ent, shannon_samples, byte_ranges, raw, chunkLog,
                   exebin, sidx, marker, file_array, ordered_row, content, block_len,
                   i, prev_end, blocks>>

(* trend line and plot of the section's samples; on to the next section *)
SectEntPlot ==
    /\ op = "section_ent_line" /\ pc = "trend"
    /\ sidx' = sidx + 1
    /\ pc' = "sections"
    /\ UNCHANGED <<op, err, data, chunks, ibytes, ignore_0, block_size, fhOpen, pos, fs,
                   chunksize, prev_ent, shannon_samples, byte_ranges, raw, chunkLog,
                   exebin, marker, file_array, ordered_row, content, block_len,
                   i, prev_end, blocks>>

SectEntDone ==
    /\ op = "section_ent_line" /\ pc = "sections"
    /\ pc' = "returned"
    /\ UNCHANGED <<op, err, data, chunks, ibytes, ignore_0, block_size, fhOpen, pos, fs,
                   chunksize, prev_ent, shannon_samples, byte_ranges, raw, chunkLog,
                   exebin, sidx, marker, file_array, ordered_row, content, block_len,
                   i, prev_end, blocks>>

----------------------------------------------------------------------------
(* The state before a call: the arguments are chosen, nothing has run *)

Idle ==
    /\ pc = "call" /\ err = ""
    /\ fhOpen = FALSE /\ pos = 0 /\ fs = 0 /\ chunksize = 0 /\ prev_ent = 0
    /\ shannon_samples = <<>> /\ byte_ranges = <<>> /\ raw = <<>> /\ chunkLog = <<>>
    /\ exebin = "unparsed" /\ sidx = 0 /\ marker = <<>>
    /\ file_array = <<>> /\ ordered_row = <<>>
    /\ content = <<>> /\ block_len = 0 /\ i = 1 /\ prev_end = 0 /\ blocks = <<>>

Init ==
    /\ Idle
    /\ \/ /\ op = "bin_ent"
          /\ data \in ByteSeqs /\ chunks \in 1..MaxChunks /\ ibytes \in IbytesChoices
          /\ ignore_0 = TRUE /\ block_size = 1
       \/ /\ op = "bin_hist"
          /\ data \in ByteSeqs /\ ignore_0 \in BOOLEAN
          /\ chunks = 1 /\ ibytes = <<>> /\ block_size = 1
       \/ /\ op = "section_hist"
          /\ ignore_0 \in BOOLEAN
          /\ data = <<>> /\ chunks = 1 /\ ibytes = <<>> /\ block_size = 1
       \/ /\ op = "section_ent_line"
          /\ block_size \in 1..MaxBlocks
          /\ data = <<>> /\ chunks = 1 /\ ibytes = <<>> /\ ignore_0 = TRUE

BinEntNext ==
    \/ BinEntOpen \/ BinEntOpenFail \/ BinEntChunk \/ BinEntEOF
    \/ BinEntPlot \/ BinEntPlotFail \/ BinEntLiefParse
    \/ BinEntEntryPoint \/ BinEntEntryPointFail
    \/ BinEntSection \/ BinEntSectionFail \/ BinEntSectionsDone
    \/ BinEntSave \/ BinEntSaveFail \/ Finalize

BinHistNext ==
    \/ BinHistOpen \/ BinHistOpenFail \/ BinHistRead \/ BinHistReadFail
    \/ BinHistRows \/ BinHistSave \/ BinHistSaveFail

SectHistNext == SectHistEnter \/ SectHistSection \/ SectHistDone

SectEntNext ==
    \/ SectEntEnter \/ SectEntSection \/ SectEntBlock \/ SectEntLoopExit
    \/ SectEntPlot \/ SectEntDone

Next == BinEntNext \/ BinHistNext \/ SectHistNext \/ SectEntNext

Spec == Init /\ [][Next]_vars

(* section_ent_line alone.  The interpreter is single-threaded and
   synchronous: while the block loop can take a step, it takes it *)
SectEntInit == Init /\ op = "section_ent_line"

SectEntSpec ==
    SectEntInit /\ [][SectEntNext]_vars /\ WF_vars(SectEntBlock \/ SectEntLoopExit)

----------------------------------------------------------------------------
(* Properties *)

RECURSIVE Concat(_)
Concat(ss) == IF ss = <<>> THEN <<>> ELSE Head(ss) \o Concat(Tail(ss))

RECURSIVE RangeSum(_, _, _)
RangeSum(row, lo, hi) ==
    IF lo > hi THEN 0
    ELSE IF lo = hi THEN row[lo]
    ELSE LET mid == (lo + hi) \div 2
         IN  RangeSum(row, lo, mid) + RangeSum(row, mid + 1, hi)

SeqSum(row) == RangeSum(row, 1, Len(row))

(* bin_ent has opened the file and created its series *)
BinEntStarted == op = "bin_ent" /\ pc # "call" /\ err # "open"

(* bin_ent has left the chunk loop *)
BinEntLoopDone == BinEntStarted /\ pc # "chunks"

(* C1: every sample appended by bin_ent is the median of the chunk's raw
   entropy and the previous chunk's raw entropy, the latter 0 before the
   first chunk *)
C1_SamplesSmoothed ==
    BinEntStarted =>
        \A k \in 1..Len(shannon_samples) :
            shannon_samples[k] = Median2(raw[k], IF k = 1 THEN 0 ELSE raw[k - 1])

(* C2: for L >= 1 and N >= 1, bin_ent appends exactly ceil(L / ceil(L/N))
   samples; every chunk but the last has length ceil(L/N), the last is
   non-empty and not longer, and the chunks in order make up the stream *)
C2_ChunkCoverage ==
    (BinEntLoopDone /\ Len(data) >= 1) =>
        LET cs == CeilDiv(Len(data), chunks)
            n == Len(chunkLog)
        IN  /\ Len(shannon_samples) = CeilDiv(Len(data), cs)
            /\ n = Len(shannon_samples)
            /\ \A k \in 1..(n - 1) : Len(chunkLog[k]) = cs
            /\ Len(chunkLog[n]) \in 1..cs
            /\ Concat(chunkLog) = data

(* a stream that does not divide evenly: the last chunk is the shorter one *)
C2_Witness ==
    /\ BinEntLoopDone
    /\ Len(chunkLog) >= 2
    /\ Len(chunkLog[Len(chunkLog)]) < Len(chunkLog[1])

(* C3: with a non-empty ibytes, after every processed chunk each group's
   percentage series is as long as the entropy series, and entry k of both
   comes from chunk k *)
C3_SeriesAligned ==
    (BinEntStarted /\ Len(ibytes) > 0) =>
        \A g \in 1..Len(ibytes) :
            /\ Len(byte_ranges[g]) = Len(shannon_samples)
            /\ Len(chunkLog) = Len(shannon_samples)
            /\ \A k \in 1..Len(shannon_samples) :
                  /\ byte_ranges[g][k].den = Len(chunkLog[k])
                  /\ byte_ranges[g][k].num = 100 * Occurance(chunkLog[k], ibytes[g].b_range)
                  /\ raw[k] = shannon_ent(chunkLog[k])

(* two groups, two chunks processed, one of them without a tracked byte *)
C3_Witness ==
    /\ BinEntStarted /\ pc = "chunks"
    /\ Len(ibytes) >= 2
    /\ Len(shannon_samples) >= 2
    /\ \E g \in 1..Len(ibytes) : \E k \in 1..Len(byte_ranges[g]) : byte_ranges[g][k].num = 0

(* C4: every percentage appended equals 100 * (bytes of the chunk whose value
   is a member of the group) / (length of the chunk), and lies in [0, 100] *)
C4_PercentageOfMembers ==
    BinEntStarted =>
        \A g \in 1..Len(byte_ranges) : \A k \in 1..Len(byte_ranges[g]) :
            LET p == byte_ranges[g][k]
                chunk == chunkLog[k]
                members == {x \in 1..Len(chunk) : chunk[x] \in Values(ibytes[g].b_range)}
            IN  /\ p.num * Len(chunk) = 100 * Cardinality(members) * p.den
                /\ 0 <= p.num
                /\ p.num <= 100 * p.den

(* the histogram has been built *)
RowBuilt == op \in {"bin_hist", "section_hist"} /\ ordered_row # <<>>

HistInput == IF op = "bin_hist" THEN file_array ELSE content

(* C5: the counts of the value-indexed histogram sum to the length of the
   input, less its zero bytes when zero is ignored; the empty input gives
   all-zero counts *)
C5_HistogramSum ==
    RowBuilt =>
        /\ SeqSum(ordered_row) =
              Len(HistInput) - (IF ignore_0 THEN Count(HistInput, 0) ELSE 0)
        /\ HistInput = <<>> => \A k \in 1..Len(ordered_row) : ordered_row[k] = 0

(* zero ignored, and the input holds zero bytes and the highest byte value *)
C5_Witness ==
    /\ RowBuilt
    /\ ignore_0
    /\ Count(HistInput, 0) >= 1
    /\ Count(HistInput, 255) >= 1

(* C6: once bin_ent or bin_hist has returned or raised, the handle it opened
   is closed *)
C6_HandleClosedOnExit ==
    (op \in {"bin_ent", "bin_hist"} /\ pc \in {"returned", "raised"}) => ~fhOpen

(* C7: no failure of the executable-format collaborator aborts bin_ent *)
C7_LiefFailureNotFatal ==
    (op = "bin_ent" /\ pc = "raised") => err \notin {"lief_entrypoint", "lief_section"}

(* C8: the floor of a marker's x position is the index of the sample whose
   chunk holds the marked byte, and x never exceeds the number of samples *)
C8_MarkerInSampleSpace ==
    (op = "bin_ent" /\ Len(marker) > 0) =>
        LET m == marker[1]
        IN  /\ m.num \div m.den = m.offset \div CeilDiv(Len(data), chunks)
            /\ m.num <= Len(shannon_samples) * m.den

(* number of blocks whose slice [start, end) holds offset b *)
Covered(b) == Cardinality({k \in 1..Len(blocks) : blocks[k][1] <= b /\ b < blocks[k][2]})

InBlockLoop == op = "section_ent_line" /\ pc = "blocks"

AfterBlockLoop == op = "section_ent_line" /\ pc = "trend"

(* C9: block i is the slice [previous end, i * block_len) and the next
   previous end is i * block_len + 1; blocks do not overlap, their offsets
   strictly increase, the content byte at i * block_len between two
   consecutive blocks is in no block and every other byte before the last
   block's end is in exactly one *)
C9_BlockPartition ==
    (InBlockLoop \/ AfterBlockLoop) =>
        LET bl == CeilDiv(Len(content), block_size)
            n == Len(blocks)
            covered_end == IF n = 0 THEN 0 ELSE Min(blocks[n][2], Len(content))
        IN  /\ \A k \in 1..n :
                  blocks[k] = <<IF k = 1 THEN 0 ELSE (k - 1) * bl + 1, k * bl>>
            /\ prev_end = IF n = 0 THEN 0 ELSE n * bl + 1
            /\ \A k \in 1..(n - 1) :
                  /\ blocks[k][1] < blocks[k + 1][1]
                  /\ blocks[k + 1][1] = blocks[k][2] + 1
                  /\ blocks[k][2] < Len(content)
            /\ \A b \in 0..(covered_end - 1) :
                  Covered(b) = IF \E k \in 1..(n - 1) : b = k * bl THEN 0 ELSE 1

(* the loop is over after several blocks of more than one byte *)
C9_Witness ==
    /\ AfterBlockLoop
    /\ Len(blocks) >= 2
    /\ block_len >= 2

(* at most block_size samples, the loop left at the first prev_end > len *)
BlockLoopBound ==
    /\ InBlockLoop =>
          /\ Len(shannon_samples) <= block_size
          /\ prev_end <= Len(content) => Len(shannon_samples) < block_size
    /\ AfterBlockLoop =>
          /\ Len(shannon_samples) >= 1
          /\ Len(shannon_samples) <= block_size
          /\ prev_end > Len(content)
          /\ \A k \in 1..Len(blocks) : blocks[k][1] <= Len(content)

(* C10: for every content length >= 0 and block_size >= 1 the block loop
   terminates, at the first iteration after which prev_end > len, with at
   least one and at most block_size samples appended *)
C10_BlockLoopTerminates ==
    /\ [](InBlockLoop => <>AfterBlockLoop)
    /\ []BlockLoopBound

(* the loop ended with as many samples as block_size allows, more than one *)
C10_Witness ==
    /\ AfterBlockLoop
    /\ block_size >= 2
    /\ Len(shannon_samples) = block_size

====
